---- MODULE Spec2Model ----
(***************************************************************************)
(* Membrane CO2 capture: the 80/80 target optimizer (auto_optimizer.py)    *)
(* and the pieces of the stage solver (membrane_separation.py) it calls.   *)
(*                                                                         *)
(* Real quantities are fixed-point integers:                               *)
(*   pressures            1/20 bar        (0.05 bar = 1, 1 bar = 20)       *)
(*   area_factor          1/10            (0.1 = 1, 10 = 100)              *)
(*   feed_composition     1/1000          (0.15 = 150)                     *)
(*   recovery, purity     1/100           (0.80 = 80)                      *)
(*   selectivity, permeance (GPU), temperature (K)   units                 *)
(*   feed_flow            1/100 kmol/s    (1.0 = 100)                      *)
(*   electricity_cost     1/100 $/kWh     (0.07 = 7)                       *)
(*   stage_cut            1/10            (0.3 = 3)                        *)
(*   retentate_co2        1/1000000                                        *)
(*   co2_recovery of a stage record   1/10000                              *)
(*   permeate_flow, retentate_flow    1/1000 kmol/s                        *)
(*   co2_permeated        1/100 mol/s;  membrane_area  m2                  *)
(*   partial pressures    5 Pa;  residuals  1/10000                        *)
(*   penalties            1/2000          (1e6 = 2000000000)               *)
(* Python dicts are functions on a set of string keys; a key that is       *)
(* absent from a dict is absent from the function's DOMAIN.                *)
(***************************************************************************)
EXTENDS Integers, Sequences, FiniteSets, TLC

VARIABLES
    base_params,   \* the caller's dict, as passed to guaranteed_solution
    opex_calc,     \* TargetOptimizer.opex_calc: the two cost settings the optimizer writes
    status,        \* guaranteed_solution: "running" | "returned" | "raised"
    strategy,      \* the strategy about to run, or the one that ended the call
    solution,      \* guaranteed_solution's local `solution` (the returned record at the end)
    handed,        \* the dict handed to find_optimal_conditions by the latest call
    started,       \* history: strategies whose optimization was started, in order
    outcomes,      \* history: meets_target as computed by each finished optimization
    close_seen,    \* history: a finished optimization of 1-6 had recovery and purity >= 0.78
    relax_input,   \* history: the (recovery, purity) pair strategy 7 tested
    eval,          \* the latest standalone objective_function evaluation
    stage          \* the latest MembraneSeparation constructed and its latest solve

vars == <<base_params, opex_calc, status, strategy, solution, handed,
          started, outcomes, close_seen, relax_input, eval, stage>>

-----------------------------------------------------------------------------
(* dict helpers *)

Get(d, k, default) == IF k \in DOMAIN d THEN d[k] ELSE default

Set(d, k, v) == [x \in (DOMAIN d) \cup {k} |-> IF x = k THEN v ELSE d[x]]

Min(a, b) == IF a <= b THEN a ELSE b

Max(a, b) == IF a >= b THEN a ELSE b

\* x * (num / 10) for the one-decimal factors of the escalation schedule
Times(x, tenths) == (x * tenths) \div 10

EmptyDict == [x \in {} |-> 0]

-----------------------------------------------------------------------------
(* TargetOptimizer.__init__ and OPEXCalculator.__init__ *)

recovery_target == 80

purity_target == 80

OpexDefaults == [electricity_cost |-> 7, membrane_cost_per_m2 |-> 50]

-----------------------------------------------------------------------------
(* MembraneSeparation *)

\* A feed_flow that is not a number (None, a string): theta * F raises inside
\* the solver's try block.
NotANumber == 0 - 1

\* __init__: P_N2 = P_CO2 / alpha raises ZeroDivisionError for selectivity 0.
MembraneSeparation(feed_composition, feed_pressure, permeate_pressure, temperature, co2_permeance_gpu, selectivity) ==
    IF selectivity = 0
    THEN [ok |-> FALSE]
    ELSE [ok |-> TRUE, z |-> feed_composition, P_f |-> feed_pressure,
          P_p |-> permeate_pressure, T |-> temperature,
          P_CO2 |-> co2_permeance_gpu, alpha |-> selectivity]

\* How many levels above the target a solved stage may report.
ExcessLevels == 0

\* The levels of recovery and purity a solved stage may report: below the
\* relaxed threshold, between it and the target, at the target and above it.
Levels == {77, 78} \cup {80 + i : i \in 0..ExcessLevels}

None == [ok |-> FALSE]

\* What a float division by zero leaves behind: inf or nan.  The operands
\* are numpy floats, so the division warns and does not raise.
NonFinite == 2147483647

\* solve_single_stage: the root-finder's final iterate is not computed here;
\* every level of recovery and purity is a possible result.  Any exception in
\* the try block gives None.  With feed_flow = 0 the retentate flow is 0 at
\* every iterate, the root-finder stays at its initial guess y = 0.5 and
\* recovery = (P * y) / (F * z) is 0 / 0.
solve_single_stage(membrane, feed_flow) ==
    IF feed_flow = NotANumber
    THEN {None}
    ELSE IF feed_flow = 0
    THEN {[ok |-> TRUE, co2_recovery |-> NonFinite, permeate_co2 |-> 50]}
    ELSE {[ok |-> TRUE, co2_recovery |-> r, permeate_co2 |-> p] :
            r \in Levels, p \in Levels}

-----------------------------------------------------------------------------
(* MembraneSeparation.solve_single_stage, step by step *)

\* floor(n / d) for a divisor of either sign
Div(n, d) == IF d > 0 THEN n \div d ELSE (0 - n) \div (0 - d)

\* n / d on numpy floats
Quot(n, d) == IF d = 0 THEN NonFinite ELSE Div(n, d)

\* Residuals are held within +-100; the 1e10 of an infeasible iterate and
\* anything else beyond the cap is the cap.
ResidualCap == 1000000

Sat(v) == Min(Max(v, 0 - ResidualCap), ResidualCap)

\* n / d in 1/10000, held within the cap (d # 0)
Ratio(n, d) ==
    LET nn == IF d < 0 THEN 0 - n ELSE n
        dd == IF d < 0 THEN 0 - d ELSE d
        q == nn \div dd
    IN  IF q >= 100 THEN ResidualCap
        ELSE IF q < 0 - 100 THEN 0 - ResidualCap
        ELSE q * 10000 + ((nn % dd) * 10000) \div dd

\* P = theta * F
permeate_flow(theta, F) == theta * F

retentate_flow_is_feed(F, P) == 10 * F

\* R = F - P
retentate_flow(F, P) == 10 * F - P

retentate_co2_per_feed(F, z, P, y, R) == Quot((F * z - P * y) * 10000, 10 * F)

\* x = (F*z - P*y) / R
retentate_co2(F, z, P, y, R) == Quot((F * z - P * y) * 10000, R)

ZeroFluxUnchecked(J_CO2, J_N2) == FALSE

\* if abs(J_CO2) < 1e-20 or abs(J_N2) < 1e-20
ZeroFlux(J_CO2, J_N2) == J_CO2 = 0 \/ J_N2 = 0

\* [1e10, 1e10]
SentinelResidual == [sentinel |-> TRUE, eq1 |-> ResidualCap, eq2 |-> ResidualCap]

\* The residual function handed to fsolve, at the iterate (theta, y).
equations(membrane, F, theta, y) ==
    LET P == permeate_flow(theta, F)
        R == retentate_flow(F, P)
        x == retentate_co2(F, membrane.z, P, y, R)
        p_CO2_f == (x * membrane.P_f) \div 1000
        p_CO2_p == 10 * y * membrane.P_p
        p_N2_f == ((1000000 - x) * membrane.P_f) \div 1000
        p_N2_p == 10 * (100 - y) * membrane.P_p
        \* J_CO2 and alpha * J_N2, in GPU * 5 Pa
        J_CO2 == membrane.P_CO2 * (p_CO2_f - p_CO2_p)
        J_N2 == membrane.P_CO2 * (p_N2_f - p_N2_p)
        \* J_CO2 / J_N2: the permeance cancels and the selectivity is left
        flux_ratio == IF J_N2 = 0 THEN NonFinite
                      ELSE Ratio(membrane.alpha * (p_CO2_f - p_CO2_p), p_N2_f - p_N2_p)
        comp_ratio == IF y < 100 THEN (y * 10000) \div (100 - y) ELSE ResidualCap
        eq1 == IF flux_ratio = NonFinite
               THEN NonFinite
               ELSE IF comp_ratio = ResidualCap
               THEN 0 - ResidualCap
               ELSE Sat(flux_ratio - comp_ratio)
        balance == 10000 * (F * membrane.z - P * y) - R * x
        eq2 == IF F * membrane.z # 0 THEN Sat(Div(balance, F * membrane.z))
               ELSE IF balance = 0 THEN 0
               ELSE IF balance > 0 THEN ResidualCap ELSE 0 - ResidualCap
    IN  IF R <= 0
        THEN SentinelResidual
        ELSE IF x < 0 \/ x > 1000000 \/ y < 0 \/ y > 100
        THEN SentinelResidual
        ELSE IF ZeroFlux(J_CO2, J_N2)
        THEN SentinelResidual
        ELSE [sentinel |-> FALSE, eq1 |-> eq1, eq2 |-> eq2]

\* theta_init = 0.3, y_init = 0.5
InitialGuess == <<3, 50>>

\* Stage cuts and permeate fractions fsolve may stop at: below, on and
\* above each physical range, and the initial guess.
ThetaGrid == {-1, 0, 1, 3, 5, 7, 12}

YGrid == {-5, 0, 21, 50, 80, 100, 105}

\* fsolve(equations, [theta_init, y_init], full_output=True): the final
\* iterate and the residual there.  fsolve accepts a step only when the
\* residual norm decreases, so it stops at the initial guess or at an iterate
\* whose residual is not the 1e10 pair; which one is not computed here.
fsolve(membrane, F) ==
    {[x |-> it, fvec |-> equations(membrane, F, it[1], it[2])] :
        it \in {g \in ThetaGrid \X YGrid :
                  g = InitialGuess \/ ~equations(membrane, F, g[1], g[2]).sentinel}}

NeverWarns(fvec) == FALSE

\* info['fvec'][0]**2 + info['fvec'][1]**2 > 1e-6
NotConverged(fvec) ==
    \/ fvec.eq1 > 10 \/ fvec.eq1 < 0 - 10
    \/ fvec.eq2 > 10 \/ fvec.eq2 < 0 - 10
    \/ fvec.eq1 * fvec.eq1 + fvec.eq2 * fvec.eq2 > 100

\* recovery = (P * y) / (F * z)
co2_recovery(P, y, F, z) == Quot(P * y * 10000, F * z)

\* n_CO2_perm = P * y * 1000
co2_permeated(P, y) == P * y

\* 0.01 mol/s over (GPU_TO_SI * GPU * 5 Pa), in 1000 m2
AreaScale == 5974

\* A = n_CO2_perm / (P_CO2 * delta_p_CO2)
membrane_area(membrane, x, y, n_CO2_perm) ==
    LET p_CO2_f == (x * membrane.P_f) \div 1000
        p_CO2_p == 10 * y * membrane.P_p
        delta_p_CO2 == p_CO2_f - p_CO2_p
    IN  IF x = NonFinite \/ membrane.P_CO2 * delta_p_CO2 = 0
        THEN NonFinite
        ELSE Div(Div(n_CO2_perm * AreaScale, membrane.P_CO2) * 1000, delta_p_CO2)

ResultKeys ==
    {"stage_cut", "permeate_co2", "retentate_co2", "co2_recovery",
     "permeate_flow", "retentate_flow", "membrane_area", "co2_permeated"}

\* "Calculate results": the record built from the final iterate (theta, y)
StageRecord(membrane, F, theta, y) ==
    LET P == permeate_flow(theta, F)
        R == retentate_flow(F, P)
        x == retentate_co2(F, membrane.z, P, y, R)
        n_CO2_perm == co2_permeated(P, y)
    IN  [stage_cut |-> theta,
         permeate_co2 |-> y,
         retentate_co2 |-> x,
         co2_recovery |-> co2_recovery(P, y, F, membrane.z),
         permeate_flow |-> P,
         retentate_flow |-> R,
         membrane_area |-> membrane_area(membrane, x, y, n_CO2_perm),
         co2_permeated |-> n_CO2_perm]

ExceptPropagates ==
    [raised |-> TRUE, warned |-> FALSE, x |-> InitialGuess,
     fvec |-> SentinelResidual, results |-> None]

\* except Exception: print and return None
ExceptNone ==
    [raised |-> FALSE, warned |-> FALSE, x |-> InitialGuess,
     fvec |-> SentinelResidual, results |-> None]

\* Every way one call solve_single_stage(feed_flow) can go: whether it
\* raised, whether it printed the convergence warning, fsolve's final iterate
\* and residual, and the value returned.  theta * F raises inside fsolve for
\* a feed_flow that is not a number.
StageRuns(membrane, feed_flow) ==
    IF feed_flow = NotANumber
    THEN {ExceptNone}
    ELSE {[raised |-> FALSE,
           warned |-> NotConverged(sol.fvec),
           x |-> sol.x,
           fvec |-> sol.fvec,
           results |-> StageRecord(membrane, feed_flow, sol.x[1], sol.x[2])] :
            sol \in fsolve(membrane, feed_flow)}

-----------------------------------------------------------------------------
(* TargetOptimizer.objective_function *)

\* 1e6, the penalty of an infeasible candidate (in 1/2000)
Sentinel == 2000000000

InvertedStrict(feed_pressure, permeate_pressure) == permeate_pressure > feed_pressure

\* permeate pressure must be lower than feed pressure
Inverted(feed_pressure, permeate_pressure) == permeate_pressure >= feed_pressure

OutOfRangeNoArea(feed_pressure, permeate_pressure, area_factor) ==
    \/ feed_pressure < 20 \/ feed_pressure > 400
    \/ permeate_pressure < 1 \/ permeate_pressure > 100

OutOfRangeClosed(feed_pressure, permeate_pressure, area_factor) ==
    \/ feed_pressure <= 20 \/ feed_pressure >= 400
    \/ permeate_pressure <= 1 \/ permeate_pressure >= 100
    \/ area_factor <= 1 \/ area_factor >= 100

\* the three range checks: feed_pressure in [1, 20], permeate_pressure in
\* [0.05, 5], area_factor in [0.1, 10]
OutOfRange(feed_pressure, permeate_pressure, area_factor) ==
    \/ feed_pressure < 20 \/ feed_pressure > 400
    \/ permeate_pressure < 1 \/ permeate_pressure > 100
    \/ area_factor < 1 \/ area_factor > 100

\* 100*max(0, target - value)^2; value and target in 1/100, the result in 1/2000.
\* max(0, target - nan) is 0: nan > 0 is False and max keeps its first argument.
Shortfall(target, value) == Max(0, target - value) * Max(0, target - value) * 20

CostPenaltySwapped(feed_pressure, area_factor) == 2 * feed_pressure + 2 * area_factor

\* (feed_pressure / 10) * 0.1 + (area_factor / 5) * 0.1, in 1/2000
CostPenalty(feed_pressure, area_factor) == feed_pressure + 4 * area_factor

TotalPenalty(results, feed_pressure, area_factor) ==
    Shortfall(recovery_target, results.co2_recovery)
    + Shortfall(purity_target, results.permeate_co2)
    + CostPenalty(feed_pressure, area_factor)

\* One evaluation that returned 1e6 at a check.
Rejected(constructed, solved) ==
    [raised |-> FALSE, value |-> Sentinel, constructed |-> constructed,
     solved |-> solved, results |-> None]

Propagated(constructed, solved) == [Rejected(constructed, solved) EXCEPT !.raised = TRUE]

\* One evaluation that raised inside the try block: `except Exception`
\* returns 1e6.
Caught(constructed, solved) == Rejected(constructed, solved)

StageModelScaled(params, fixed_params) ==
    MembraneSeparation(fixed_params.feed_composition, params[1], params[2],
        fixed_params.temperature,
        Times(fixed_params.co2_permeance_gpu, params[3]), fixed_params.selectivity)

\* membrane = MembraneSeparation(...): built from the two pressures of the
\* candidate and from fixed_params; area_factor is not an argument.
StageModel(params, fixed_params) ==
    MembraneSeparation(fixed_params.feed_composition, params[1], params[2],
        fixed_params.temperature,
        fixed_params.co2_permeance_gpu, fixed_params.selectivity)

\* Every way one evaluation of objective_function(params, fixed_params) can
\* go: the value returned, whether a MembraneSeparation was constructed,
\* whether solve_single_stage was called, and what it gave.
ObjectiveRuns(params, fixed_params) ==
    LET feed_pressure == params[1]
        permeate_pressure == params[2]
        area_factor == params[3]
    IN  IF Inverted(feed_pressure, permeate_pressure)
        THEN {Rejected(FALSE, FALSE)}
        ELSE IF OutOfRange(feed_pressure, permeate_pressure, area_factor)
        THEN {Rejected(FALSE, FALSE)}
        ELSE IF ~({"feed_composition", "temperature", "co2_permeance_gpu",
                   "selectivity"} \subseteq DOMAIN fixed_params)
        THEN {Caught(FALSE, FALSE)}                        \* KeyError
        ELSE LET membrane == StageModel(params, fixed_params)
             IN  IF ~membrane.ok
                 THEN {Caught(FALSE, FALSE)}               \* ZeroDivisionError
                 ELSE IF "feed_flow" \notin DOMAIN fixed_params
                 THEN {Caught(TRUE, FALSE)}                \* KeyError
                 ELSE {IF results.ok
                       THEN [raised |-> FALSE,
                             value |-> TotalPenalty(results, feed_pressure, area_factor),
                             constructed |-> TRUE, solved |-> TRUE,
                             results |-> results]
                       ELSE Caught(TRUE, TRUE)             \* None['co2_recovery']
                       : results \in solve_single_stage(membrane, fixed_params.feed_flow)}

objective_function(params, fixed_params) ==
    {run.value : run \in ObjectiveRuns(params, fixed_params)}

-----------------------------------------------------------------------------
(* TargetOptimizer.find_optimal_conditions *)

fixed_params(bp) ==
    [feed_flow |-> Get(bp, "feed_flow", 100),
     feed_composition |-> Get(bp, "feed_composition", 150),
     temperature |-> Get(bp, "temperature", 298),
     co2_permeance_gpu |-> Get(bp, "co2_permeance_gpu", 800),
     selectivity |-> Get(bp, "selectivity", 50)]

\* bounds = [(1.0, 15.0), (0.05, 2.0), (0.1, 10.0)]
InBounds(c) ==
    /\ 20 <= c[1] /\ c[1] <= 300
    /\ 1 <= c[2] /\ c[2] <= 40
    /\ 1 <= c[3] /\ c[3] <= 100

\* The highest feed pressure, in bar, among the followed search points.
MaxFeedBar == 2

\* The operating points of the search box the model follows: feed pressure
\* 1..MaxFeedBar bar, permeate pressure 0.2 and 2 bar (2 bar against 1 or 2 bar
\* is an inverted point inside the box), area factor 1.
SearchPoints ==
    {c \in {20 * b : b \in 1..MaxFeedBar} \X {4, 40} \X {10} : InBounds(c)}

\* differential_evolution(self.objective_function, bounds, args=(fixed_params,)):
\* the member of the search box the search ends on, with its score.  The search
\* ends on a point that scored below the sentinel when the box holds one, and
\* on any point of the box when every evaluation scored the sentinel.
differential_evolution(fixed) ==
    LET scored == UNION {{[x |-> c, fun |-> run.value, run |-> run] :
                             run \in ObjectiveRuns(c, fixed)} : c \in SearchPoints}
        feasible == {o \in scored : o.fun < Sentinel}
    IN  IF feasible # {} THEN feasible ELSE scored

MeetsEitherTarget(results) ==
    results.co2_recovery >= recovery_target \/ results.permeate_co2 >= purity_target

\* meets_target of the compiled record
MeetsTarget(results) ==
    /\ results.co2_recovery # NonFinite                    \* nan >= 0.80 is False
    /\ results.co2_recovery >= recovery_target /\ results.permeate_co2 >= purity_target

\* The record find_optimal_conditions compiles.  membrane_area, stage_cut,
\* opex_annual, total_power and full_results carry solver and economics
\* numbers the model does not compute.
OptimalSolution(opt, results) ==
    [feed_pressure |-> opt.x[1],
     permeate_pressure |-> opt.x[2],
     pressure_ratio |-> (opt.x[1] * 10) \div opt.x[2],
     co2_recovery |-> results.co2_recovery,
     co2_purity |-> results.permeate_co2,
     meets_target |-> MeetsTarget(results),
     optimization_penalty |-> opt.fun]

SolutionKeys ==
    {"feed_pressure", "permeate_pressure", "pressure_ratio", "co2_recovery",
     "co2_purity", "meets_target", "optimization_penalty"}

\* The evaluation at the optimal point, after the search: it raises when the
\* constructor raises or when the solver gave None (None['membrane_area']);
\* the two cost settings of opex_calc are written in between.
FinalEvaluation(bp, fixed, opt, oc) ==
    LET membrane == MembraneSeparation(fixed.feed_composition, opt.x[1], opt.x[2],
                        fixed.temperature, fixed.co2_permeance_gpu, fixed.selectivity)
        written == [electricity_cost |-> Get(bp, "electricity_cost", 7),
                    membrane_cost_per_m2 |-> Get(bp, "membrane_cost_per_m2", 50)]
    IN  IF ~membrane.ok
        THEN {[raised |-> TRUE, opex_calc |-> oc]}
        ELSE {IF results.ok
              THEN [raised |-> FALSE, opex_calc |-> written,
                    solution |-> OptimalSolution(opt, results)]
              ELSE [raised |-> TRUE, opex_calc |-> written]
              : results \in (IF opt.run.solved
                             THEN {opt.run.results}
                             ELSE solve_single_stage(membrane, fixed.feed_flow))}

\* Every way find_optimal_conditions(base_params) can end, from an optimizer
\* whose opex_calc holds oc.
find_optimal_conditions(bp, oc) ==
    UNION {FinalEvaluation(bp, fixed_params(bp), opt, oc) :
              opt \in differential_evolution(fixed_params(bp))}

-----------------------------------------------------------------------------
(* TargetOptimizer.guaranteed_solution: the parameter set of each strategy *)

params2(bp) ==
    Set(bp, "selectivity", Min(100, Times(Get(bp, "selectivity", 50), 15)))

params3(bp) ==
    Set(Set(bp, "feed_composition",
                Min(500, Times(Get(bp, "feed_composition", 150), 15))),
        "selectivity", Min(100, Times(Get(bp, "selectivity", 50), 13)))

params4_feed_cap_050(bp) ==
    Set(Set(Set(bp, "selectivity", 150),
            "co2_permeance_gpu", Times(Get(bp, "co2_permeance_gpu", 800), 7)),
        "feed_composition", Min(500, Times(Get(bp, "feed_composition", 150), 13)))

params4(bp) ==
    Set(Set(Set(bp, "selectivity", 150),
            "co2_permeance_gpu", Times(Get(bp, "co2_permeance_gpu", 800), 7)),
        "feed_composition", Min(400, Times(Get(bp, "feed_composition", 150), 13)))

params5(bp) ==
    Set(Set(Set(bp, "temperature", 308),
            "selectivity", 120),
        "feed_composition", Min(500, Times(Get(bp, "feed_composition", 150), 20)))

params6(bp) ==
    Set(Set(Set(Set(bp, "selectivity", 200),
                "co2_permeance_gpu", 1200),
            "feed_composition", 300),
        "temperature", 298)

working_params_of_strategy6 ==
    [feed_flow |-> 100, feed_composition |-> 300, temperature |-> 298,
     co2_permeance_gpu |-> 1200, selectivity |-> 200,
     electricity_cost |-> 7, membrane_cost_per_m2 |-> 50]

working_params ==
    [feed_flow |-> 100, feed_composition |-> 300, temperature |-> 298,
     co2_permeance_gpu |-> 1500, selectivity |-> 250,
     electricity_cost |-> 7, membrane_cost_per_m2 |-> 50]

StrategyParams(k, bp) ==
    CASE k = 1 -> bp
      [] k = 2 -> params2(bp)
      [] k = 3 -> params3(bp)
      [] k = 4 -> params4(bp)
      [] k = 5 -> params5(bp)
      [] k = 6 -> params6(bp)
      [] k = 8 -> working_params

\* "Add changed parameters to solution": the keys a successful strategy
\* copies from its parameter set into the record it returns.
Reported(k) ==
    CASE k = 3 -> {"feed_composition", "selectivity"}
      [] k = 4 -> {"selectivity", "co2_permeance_gpu", "feed_composition"}
      [] k = 5 -> {"temperature", "selectivity", "feed_composition"}
      [] k \in {6, 8} -> {"selectivity", "co2_permeance_gpu", "feed_composition",
                          "temperature"}
      [] OTHER -> {}

Annotate(sol, k, params) ==
    [x \in (DOMAIN sol) \cup Reported(k) |->
        IF x \in Reported(k) THEN params[x] ELSE sol[x]]

FallsThrough(sol) == FALSE

\* if solution['meets_target']: return solution
ReturnsSolution(sol) == sol.meets_target

\* if best_recovery >= 0.78 and best_purity >= 0.78
CloseEnough(best_recovery, best_purity) ==
    best_recovery >= 78 /\ best_purity >= 78

OverrideSkipped(sol) == sol

\* solution['meets_target'] = True
Override(sol) == [sol EXCEPT !.meets_target = TRUE]

-----------------------------------------------------------------------------
(* TargetOptimizer.guaranteed_solution: the escalation *)

\* Strategies 1-6: optimize with the strategy's parameter set; return the
\* record, with the changed parameters added, when it meets the target.
Escalate(k) ==
    /\ \E out \in find_optimal_conditions(StrategyParams(k, base_params), opex_calc) :
          /\ handed' = StrategyParams(k, base_params)
          /\ started' = Append(started, k)
          /\ opex_calc' = out.opex_calc
          /\ IF out.raised
             THEN /\ status' = "raised"
                  /\ UNCHANGED <<strategy, solution, outcomes, close_seen>>
             ELSE /\ outcomes' = Append(outcomes, out.solution.meets_target)
                  /\ close_seen' =
                        (close_seen \/ (/\ ~out.solution.meets_target
                                        /\ out.solution.co2_recovery >= 78
                                        /\ out.solution.co2_purity >= 78))
                  /\ IF ReturnsSolution(out.solution)
                     THEN /\ solution' = Annotate(out.solution, k,
                                                  StrategyParams(k, base_params))
                          /\ status' = "returned"
                          /\ UNCHANGED strategy
                     ELSE /\ solution' = out.solution
                          /\ strategy' = k + 1
                          /\ UNCHANGED status
    /\ UNCHANGED <<base_params, relax_input, eval, stage>>

Strategy1 ==
    /\ status = "running"
    /\ strategy = 1
    /\ Escalate(1)

Strategy2 ==
    /\ status = "running"
    /\ strategy = 2
    /\ Escalate(2)

Strategy3 ==
    /\ status = "running"
    /\ strategy = 3
    /\ Escalate(3)

Strategy4 ==
    /\ status = "running"
    /\ strategy = 4
    /\ Escalate(4)

Strategy5 ==
    /\ status = "running"
    /\ strategy = 5
    /\ Escalate(5)

Strategy6 ==
    /\ status = "running"
    /\ strategy = 6
    /\ Escalate(6)

\* Strategy 7: accept the solution in hand when it is close enough.
Strategy7 ==
    /\ status = "running"
    /\ strategy = 7
    /\ relax_input' = <<solution.co2_recovery, solution.co2_purity>>
    /\ IF CloseEnough(solution.co2_recovery, solution.co2_purity)
       THEN /\ solution' = Override(solution)
            /\ status' = "returned"
            /\ UNCHANGED strategy
       ELSE /\ strategy' = 8
            /\ UNCHANGED <<solution, status>>
    /\ UNCHANGED <<base_params, opex_calc, handed, started, outcomes,
                   close_seen, eval, stage>>

\* Strategy 8: optimize with the known working parameters and force success.
Strategy8 ==
    /\ status = "running"
    /\ strategy = 8
    /\ \E out \in find_optimal_conditions(StrategyParams(8, base_params), opex_calc) :
          /\ handed' = StrategyParams(8, base_params)
          /\ started' = Append(started, 8)
          /\ opex_calc' = out.opex_calc
          /\ IF out.raised
             THEN /\ status' = "raised"
                  /\ UNCHANGED <<solution, outcomes>>
             ELSE /\ outcomes' = Append(outcomes, out.solution.meets_target)
                  /\ solution' = Annotate(Override(out.solution), 8,
                                          StrategyParams(8, base_params))
                  /\ status' = "returned"
    /\ UNCHANGED <<base_params, strategy, close_seen, relax_input, eval, stage>>

-----------------------------------------------------------------------------
(* The callers' inputs *)

\* base_params dicts: every key present, or some keys left to their defaults.
FullParams ==
    {[feed_flow |-> ff, feed_composition |-> fc, temperature |-> t,
      co2_permeance_gpu |-> 1000, selectivity |-> sel,
      electricity_cost |-> 10, membrane_cost_per_m2 |-> 60] :
        ff \in {100, NotANumber}, fc \in {100, 300, 600}, t \in {298, 320},
        sel \in {40, 80, 250}}

Dropped ==
    {{}, {"selectivity"}, {"feed_composition"}, {"co2_permeance_gpu"},
     {"feed_flow", "temperature", "electricity_cost", "membrane_cost_per_m2"}}

Without(d, keys) == [x \in (DOMAIN d) \ keys |-> d[x]]

\* auto_optimize_for_target: the dict it builds for a membrane type
auto_optimize_base_params(feed_composition, temperature, membrane_type) ==
    [feed_flow |-> 100,
     feed_composition |-> feed_composition,
     temperature |-> temperature,
     co2_permeance_gpu |-> IF membrane_type = "Polaris" THEN 1000 ELSE 800,
     selectivity |-> IF membrane_type = "Polaris" THEN 40 ELSE 50,
     electricity_cost |-> 7,
     membrane_cost_per_m2 |-> 50]

\* update_sim: "Set membrane properties based on type", the permeance and
\* selectivity the simulator's MembraneSeparation is built with
update_sim_membrane(membrane_type) ==
    [co2_permeance_gpu |-> IF membrane_type = "Polaris" THEN 3000 ELSE 2500,
     selectivity |-> IF membrane_type = "Polaris" THEN 30 ELSE 680]

BaseChoices ==
    {Without(d, keys) : d \in FullParams, keys \in Dropped}
    \cup {auto_optimize_base_params(fc, 298, type) :
            fc \in {150, 250}, type \in {"Polaris", "Advanced"}}

Init ==
    /\ base_params \in BaseChoices
    /\ opex_calc = OpexDefaults
    /\ status = "running"
    /\ strategy = 1
    /\ solution = EmptyDict
    /\ handed = EmptyDict
    /\ started = <<>>
    /\ outcomes = <<>>
    /\ close_seen = FALSE
    /\ relax_input = <<>>
    /\ eval = [called |-> FALSE]
    /\ stage = [phase |-> "none"]

Next ==
    \/ Strategy1
    \/ Strategy2
    \/ Strategy3
    \/ Strategy4
    \/ Strategy5
    \/ Strategy6
    \/ Strategy7
    \/ Strategy8

Spec == Init /\ [][Next]_vars

-----------------------------------------------------------------------------
(* objective_function called on its own *)

\* Candidate vectors: values inside, on and outside each range check.
Candidates == {19, 20, 60, 400, 401} \X {0, 1, 4, 60, 100, 101} \X {0, 1, 10, 100, 101}

\* fixed_params dicts: the optimizer's own, one with selectivity 0, one with
\* a feed_flow that is not a number, one with no feed at all, one with a
\* richer feed and two that lack a key.
FixedChoices ==
    LET own == fixed_params(EmptyDict)
    IN  {own,
         [own EXCEPT !.selectivity = 0],
         [own EXCEPT !.feed_flow = NotANumber],
         [own EXCEPT !.feed_flow = 0],
         [own EXCEPT !.feed_composition = 300, !.selectivity = 200],
         Without(own, {"feed_flow"}),
         Without(own, {"selectivity"})}

ObjectiveCall ==
    /\ \E params \in Candidates, fixed \in FixedChoices :
          \E run \in ObjectiveRuns(params, fixed) :
             eval' = [called |-> TRUE, params |-> params, fixed_params |-> fixed,
                      raised |-> run.raised, value |-> run.value, constructed |-> run.constructed,
                      solved |-> run.solved, results |-> run.results]
    /\ UNCHANGED <<base_params, opex_calc, status, strategy, solution, handed,
                   started, outcomes, close_seen, relax_input, stage>>

InitObjective ==
    /\ base_params = EmptyDict
    /\ opex_calc = OpexDefaults
    /\ status = "idle"
    /\ strategy = 1
    /\ solution = EmptyDict
    /\ handed = EmptyDict
    /\ started = <<>>
    /\ outcomes = <<>>
    /\ close_seen = FALSE
    /\ relax_input = <<>>
    /\ eval = [called |-> FALSE]
    /\ stage = [phase |-> "none"]

NextObjective == ObjectiveCall

SpecObjective == InitObjective /\ [][NextObjective]_vars

-----------------------------------------------------------------------------
(* Two candidates that differ only in area_factor *)

\* In-range pressures with the area factors 0.1, 1 and 10.
PairPoints == {60, 400} \X {1, 4} \X {1, 10, 100}

\* One evaluation as the pair keeps it.
Evaluated(params, fixed, run) ==
    [params |-> params,
     membrane |-> IF run.constructed THEN StageModel(params, fixed) ELSE None,
     solved |-> run.solved, results |-> run.results, value |-> run.value]

\* solve_single_stage computes its result from the model and the feed flow:
\* two calls with identical inputs give identical results.
SameSolver(first, second) ==
    first.membrane = second.membrane => first.results = second.results

\* objective_function on two candidates that differ only in area_factor,
\* with the same fixed_params.
ObjectivePair ==
    /\ \E fixed \in FixedChoices, c1 \in PairPoints, c2 \in PairPoints :
          /\ c1[1] = c2[1] /\ c1[2] = c2[2] /\ c1[3] < c2[3]
          /\ \E run1 \in ObjectiveRuns(c1, fixed), run2 \in ObjectiveRuns(c2, fixed) :
                LET first == Evaluated(c1, fixed, run1)
                    second == Evaluated(c2, fixed, run2)
                IN  /\ SameSolver(first, second)
                    /\ eval' = [called |-> TRUE, pair |-> "objective",
                                first |-> first, second |-> second]
    /\ UNCHANGED <<base_params, opex_calc, status, strategy, solution, handed,
                   started, outcomes, close_seen, relax_input, stage>>

\* The records find_optimal_conditions compiles from two optima that differ
\* only in area_factor.
SolutionPair ==
    /\ \E type \in {"Polaris", "Advanced"}, c1 \in PairPoints, c2 \in PairPoints :
          LET bp == auto_optimize_base_params(150, 298, type)
              fixed == fixed_params(bp)
          IN  /\ c1[1] = c2[1] /\ c1[2] = c2[2] /\ c1[3] < c2[3]
              /\ \E run1 \in ObjectiveRuns(c1, fixed), run2 \in ObjectiveRuns(c2, fixed) :
                    /\ SameSolver(Evaluated(c1, fixed, run1), Evaluated(c2, fixed, run2))
                    /\ \E out1 \in FinalEvaluation(bp, fixed,
                                    [x |-> c1, fun |-> run1.value, run |-> run1], opex_calc),
                          out2 \in FinalEvaluation(bp, fixed,
                                    [x |-> c2, fun |-> run2.value, run |-> run2], opex_calc) :
                          /\ ~out1.raised /\ ~out2.raised
                          /\ eval' = [called |-> TRUE, pair |-> "solution",
                                      first |-> [params |-> c1, solution |-> out1.solution],
                                      second |-> [params |-> c2, solution |-> out2.solution]]
    /\ UNCHANGED <<base_params, opex_calc, status, strategy, solution, handed,
                   started, outcomes, close_seen, relax_input, stage>>

InitPair == InitObjective

NextPair ==
    \/ ObjectivePair
    \/ SolutionPair

SpecPair == InitPair /\ [][NextPair]_vars

-----------------------------------------------------------------------------
(* MembraneSeparation constructed and solved on its own *)

\* Constructor arguments: the two membrane types at 3 bar, lean to rich
\* feeds, a feed of pure CO2, a permeate side at and above the feed
\* pressure, a membrane without permeance and selectivities of 0 and below.
StageArgs ==
    {<<150, 60, 1, 298, 1000, 40>>,
     <<1000, 60, 4, 298, 800, 50>>,
     <<150, 20, 40, 298, 800, 50>>,
     <<150, 60, 60, 298, 800, 50>>,
     <<100, 60, 4, 298, 800, 50>>,
     <<150, 60, 4, 298, 800, 50>>,
     <<300, 60, 4, 298, 800, 50>>,
     <<150, 60, 4, 298, 0, 50>>,
     <<150, 60, 4, 298, 800, 0>>,
     <<150, 60, 4, 298, 800, -50>>}

FeedFlows == {0, 100, NotANumber}

Construct ==
    /\ \E a \in StageArgs :
          LET membrane == MembraneSeparation(a[1], a[2], a[3], a[4], a[5], a[6])
          IN  stage' = [phase |-> IF membrane.ok THEN "constructed" ELSE "raised",
                        args |-> a, membrane |-> membrane]
    /\ UNCHANGED <<base_params, opex_calc, status, strategy, solution, handed,
                   started, outcomes, close_seen, relax_input, eval>>

\* equations([theta, y]): one evaluation of the residual function, for a
\* numeric feed_flow
Residual ==
    /\ stage.phase \in {"constructed", "solved", "evaluated"}
    /\ \E feed_flow \in FeedFlows \ {NotANumber}, theta \in ThetaGrid, y \in YGrid :
          stage' = [phase |-> "evaluated", args |-> stage.args,
                    membrane |-> stage.membrane, feed_flow |-> feed_flow,
                    theta |-> theta, y |-> y,
                    fvec |-> equations(stage.membrane, feed_flow, theta, y)]
    /\ UNCHANGED <<base_params, opex_calc, status, strategy, solution, handed,
                   started, outcomes, close_seen, relax_input, eval>>

Solve ==
    /\ stage.phase \in {"constructed", "solved", "evaluated"}
    /\ \E feed_flow \in FeedFlows :
          \E run \in StageRuns(stage.membrane, feed_flow) :
             stage' = [phase |-> "solved", args |-> stage.args,
                       membrane |-> stage.membrane, feed_flow |-> feed_flow,
                       raised |-> run.raised, warned |-> run.warned,
                       x |-> run.x, fvec |-> run.fvec, results |-> run.results]
    /\ UNCHANGED <<base_params, opex_calc, status, strategy, solution, handed,
                   started, outcomes, close_seen, relax_input, eval>>

InitStage == InitObjective

NextStage ==
    \/ Construct
    \/ Residual
    \/ Solve

SpecStage == InitStage /\ [][NextStage]_vars

-----------------------------------------------------------------------------
(* Properties of guaranteed_solution (under Spec) *)

Last(seq) == seq[Len(seq)]

Returned == status = "returned"

\* The value a request with dict d is computed with, defaults filled in.
Effective(d, key) == fixed_params(d)[key]

\* C1: for every base_params with feed_composition in (0,1) and a reasonable
\* temperature, guaranteed_solution never raises and the record it returns
\* carries a boolean meets_target, whatever the stage solver yields (a record
\* or None).
C1_NeverRaises ==
    (/\ 0 < Effective(base_params, "feed_composition")
     /\ Effective(base_params, "feed_composition") < 1000
     /\ Effective(base_params, "temperature") \in 250..400)
    => /\ status # "raised"
       /\ Returned => /\ "meets_target" \in DOMAIN solution
                      /\ solution.meets_target \in BOOLEAN

\* C2: strategies are tried in the order 1,2,...,8, each at most once; the
\* optimization of strategy k starts only after every earlier strategy
\* finished without meeting the target, and the first result that meets the
\* target is returned with no later strategy run.
C2_SequentialFirstSuccess ==
    /\ Len(started) <= 7
    /\ \A i \in 1..Len(started) : started[i] = (IF i <= 6 THEN i ELSE 8)
    /\ Len(outcomes) \in {Len(started), Len(started) - 1}
    /\ \A i \in 1..Len(outcomes) :
          /\ i < Len(started) => outcomes[i] = FALSE
          /\ outcomes[i] = TRUE => /\ i = Len(started)
                                   /\ Returned
                                   /\ strategy = started[i]
    /\ (Len(started) = 7) =>
          /\ relax_input # <<>>
          /\ ~(relax_input[1] >= 78 /\ relax_input[2] >= 78)
    /\ status = "running" => Len(started) = Min(strategy, 7) - 1

C2_Witness ==
    /\ Returned
    /\ strategy = 4
    /\ started = <<1, 2, 3, 4>>
    /\ outcomes = <<FALSE, FALSE, FALSE, TRUE>>

\* C3: every record guaranteed_solution returns has meets_target = True, so
\* a caller's meets_target = False branch is never taken after a return.
C3_ReturnedMeetsTarget ==
    Returned => solution.meets_target = TRUE

C3_Witness ==
    /\ Returned
    /\ strategy = 7
    /\ solution.co2_recovery < recovery_target
    /\ solution.meets_target = TRUE

\* C4: a returned record computed with a selectivity, CO2 permeance, feed
\* composition or temperature other than the caller's carries that field with
\* the value used, for every terminal strategy.
C4_ChangedParametersReported ==
    Returned =>
        \A key \in {"selectivity", "co2_permeance_gpu", "feed_composition",
                    "temperature"} :
            Effective(handed, key) # Effective(base_params, key)
            => /\ key \in DOMAIN solution
               /\ solution[key] = Effective(handed, key)

\* C5: the returned record tells a met target from an approximately accepted
\* one (strategy 7) and a forced one (strategy 8): an approximate or forced
\* record carries a label besides meets_target, that is, a field a record of
\* find_optimal_conditions does not have.
C5_ApproximateOrForcedLabelled ==
    (Returned /\ strategy \in {7, 8}) => (DOMAIN solution) \ SolutionKeys # {}

\* C6: a record returned by one of strategies 1-6 has recovery and purity at
\* or above their targets, and its meets_target is the conjunction of the two
\* comparisons find_optimal_conditions computed.
C6_GenuineSuccess ==
    (Returned /\ strategy \in 1..6) =>
        /\ solution.co2_recovery >= recovery_target
        /\ solution.co2_purity >= purity_target
        /\ solution.meets_target = Last(outcomes)
        /\ solution.meets_target =
              (solution.co2_recovery >= 80 /\ solution.co2_purity >= 80)

C6_Witness ==
    /\ Returned
    /\ strategy = 3
    /\ solution.co2_recovery = 80
    /\ solution.co2_purity = 80

\* C7: when strategies 1-6 all miss the target but the best recovery and
\* purity obtained among them are both >= 0.78, that solution is accepted
\* (meets_target overridden) and strategy 8 is not run.
C7_RelaxationUsesBest ==
    (close_seen /\ strategy >= 7) =>
        /\ strategy = 7
        /\ Len(started) = 6
        /\ Returned => /\ solution.co2_recovery >= 78
                       /\ solution.co2_purity >= 78
                       /\ solution.meets_target = TRUE

\* C8: strategy 8 runs only after strategies 1-6 all missed the target and
\* the 0.78 test failed; it optimizes once with feed 0.30, permeance 1500,
\* selectivity 250 and returns a record with meets_target = True and those
\* values, whatever recovery and purity it achieved.
C8_EngineeredFallback ==
    (Len(started) = 7 \/ (Returned /\ strategy = 8)) =>
        /\ started = <<1, 2, 3, 4, 5, 6, 8>>
        /\ \A i \in 1..6 : outcomes[i] = FALSE
        /\ relax_input # <<>>
        /\ ~(relax_input[1] >= 78 /\ relax_input[2] >= 78)
        /\ handed.feed_composition = 300
        /\ handed.co2_permeance_gpu = 1500
        /\ handed.selectivity = 250
        /\ Returned
        /\ strategy = 8
        /\ solution.meets_target = TRUE
        /\ solution.feed_composition = 300
        /\ solution.co2_permeance_gpu = 1500
        /\ solution.selectivity = 250

C8_Witness ==
    /\ Returned
    /\ strategy = 8
    /\ solution.co2_recovery = 77
    /\ solution.co2_purity = 77
    /\ outcomes[7] = FALSE
    /\ solution.meets_target = TRUE

-----------------------------------------------------------------------------
(* Properties of objective_function (under SpecObjective) *)

\* C10: objective_function returns exactly 1e6 for every candidate with
\* permeate_pressure >= feed_pressure, whatever the area_factor and the
\* fixed_params.
C10_InvertedSentinel ==
    (eval.called /\ eval.params[2] >= eval.params[1]) => eval.value = 2000000000

C10_Witness ==
    /\ eval.called
    /\ eval.params = <<60, 60, 10>>
    /\ eval.fixed_params = fixed_params(EmptyDict)
    /\ eval.value = 2000000000

\* C11: for a candidate with inverted pressures or failing any of the three
\* range checks, objective_function returns its penalty before any
\* MembraneSeparation is constructed or solved.
C11_PenaltyBeforeConstruction ==
    (/\ eval.called
     /\ \/ eval.params[2] >= eval.params[1]
        \/ eval.params[1] < 20 \/ eval.params[1] > 400
        \/ eval.params[2] < 1 \/ eval.params[2] > 100
        \/ eval.params[3] < 1 \/ eval.params[3] > 100)
    => /\ ~eval.constructed
       /\ ~eval.solved
       /\ eval.value = 2000000000

C11_Witness ==
    /\ eval.called
    /\ eval.params = <<60, 4, 101>>
    /\ eval.fixed_params = fixed_params(EmptyDict)
    /\ ~eval.constructed
    /\ ~eval.solved

\* The candidate's pressures are ordered and all three values are inside
\* their closed ranges.
PassesChecks ==
    /\ eval.params[2] < eval.params[1]
    /\ eval.params[1] \in 20..400
    /\ eval.params[2] \in 1..100
    /\ eval.params[3] \in 1..100

\* C12: objective_function returns exactly 1e6 when feed_pressure is outside
\* [1, 20] bar, permeate_pressure outside [0.05, 5] bar or area_factor outside
\* [0.1, 10]; the boundary values themselves are in range: with ordered
\* pressures and the optimizer's own fixed_params such a candidate is solved
\* and scored by the solver's result.
C12_ClosedRanges ==
    eval.called =>
        /\ (\/ eval.params[1] \notin 20..400
            \/ eval.params[2] \notin 1..100
            \/ eval.params[3] \notin 1..100) => eval.value = 2000000000
        /\ (PassesChecks /\ eval.fixed_params = fixed_params(EmptyDict))
              => /\ eval.solved
                 /\ eval.results # None
                 /\ eval.value < 2000000000

C12_Witness ==
    /\ eval.called
    /\ eval.params \in {<<20, 1, 1>>, <<400, 100, 100>>}
    /\ eval.fixed_params = fixed_params(EmptyDict)
    /\ eval.solved
    /\ eval.value < 2000000000

\* C13: objective_function never propagates an error: when the constructor
\* raises (selectivity 0), when the solver returns None, or when fixed_params
\* lacks a key, it returns exactly 1e6.
C13_ErrorsBecomeSentinel ==
    (/\ eval.called
     /\ \/ ~({"feed_flow", "feed_composition", "temperature",
               "co2_permeance_gpu", "selectivity"} \subseteq DOMAIN eval.fixed_params)
        \/ eval.fixed_params.selectivity = 0
        \/ eval.results = None)
    => /\ ~eval.raised
       /\ eval.value = 2000000000

C13_Witness ==
    /\ eval.called
    /\ PassesChecks
    /\ \/ "feed_flow" \notin DOMAIN eval.fixed_params
       \/ (eval.solved /\ eval.results = None)
    /\ eval.constructed
    /\ eval.value = 2000000000

-----------------------------------------------------------------------------
(* Properties of solve_single_stage and the constructor (under SpecStage) *)

Solved == stage.phase = "solved"

\* C15: solve_single_stage never propagates an exception raised while
\* solving or post-processing: for any feed_flow and any constructed model it
\* returns a record with all eight fields (stage_cut, permeate_co2,
\* retentate_co2, co2_recovery, permeate_flow, retentate_flow, membrane_area,
\* co2_permeated) or None.
C15_RecordOrNone ==
    Solved =>
        /\ ~stage.raised
        /\ \/ stage.results = None
           \/ DOMAIN stage.results =
                 {"stage_cut", "permeate_co2", "retentate_co2", "co2_recovery",
                  "permeate_flow", "retentate_flow", "membrane_area",
                  "co2_permeated"}

C15_Witness ==
    /\ Solved
    /\ stage.feed_flow = NotANumber
    /\ ~stage.raised
    /\ stage.results = None

\* C16: when the root-finder ends with a residual sum of squares above 1e-6,
\* the solver prints a warning and still returns a record (not None) built
\* from the final iterate.
C16_WarnsAndReturns ==
    (/\ Solved
     /\ stage.feed_flow # NotANumber
     /\ \/ stage.fvec.eq1 > 10 \/ stage.fvec.eq1 < 0 - 10
        \/ stage.fvec.eq2 > 10 \/ stage.fvec.eq2 < 0 - 10
        \/ stage.fvec.eq1 * stage.fvec.eq1 + stage.fvec.eq2 * stage.fvec.eq2 > 100)
    => /\ stage.warned
       /\ ~stage.raised
       /\ stage.results # None
       /\ stage.results.stage_cut = stage.x[1]
       /\ stage.results.permeate_co2 = stage.x[2]

C16_Witness ==
    /\ Solved
    /\ stage.args = <<300, 60, 4, 298, 800, 50>>
    /\ stage.feed_flow = 100
    /\ stage.x = <<5, 21>>
    /\ ~stage.fvec.sentinel
    /\ stage.fvec.eq1 > 10000
    /\ stage.warned
    /\ stage.results.stage_cut = 5

C18_FlowsAddUp ==
    (Solved /\ stage.results # None) =>
        /\ stage.results.permeate_flow + stage.results.retentate_flow
              = 10 * stage.feed_flow
        /\ stage.results.permeate_flow = stage.results.stage_cut * stage.feed_flow

C18_Witness ==
    /\ Solved
    /\ stage.feed_flow = 100
    /\ stage.results # None
    /\ stage.results.stage_cut = 7
    /\ stage.results.permeate_flow = 700
    /\ stage.results.retentate_flow = 300

\* C19: every record returned is physically bounded: stage_cut, permeate_co2
\* and retentate_co2 strictly between 0 and 1, co2_recovery in [0, 1] and
\* membrane_area > 0; no record is built from an iterate outside these ranges.
C19_PhysicallyBounded ==
    (Solved /\ stage.results # None) =>
        /\ 0 < stage.results.stage_cut /\ stage.results.stage_cut < 10
        /\ 0 < stage.results.permeate_co2 /\ stage.results.permeate_co2 < 100
        /\ 0 < stage.results.retentate_co2 /\ stage.results.retentate_co2 < 1000000
        /\ 0 <= stage.results.co2_recovery /\ stage.results.co2_recovery <= 10000
        /\ 0 < stage.results.membrane_area /\ stage.results.membrane_area # NonFinite

\* C20: constructing a MembraneSeparation with selectivity <= 0 fails with an
\* error; no instance with a non-positive selectivity is produced.
C20_NoNonPositiveSelectivity ==
    (stage.phase # "none" /\ stage.args[6] <= 0) => stage.phase = "raised"

-----------------------------------------------------------------------------
(* Inverted pressures outside the penalty function *)

\* C21: a permeate pressure at or above the feed pressure is an
\* invalid-parameter error outside the penalty function: MembraneSeparation
\* is not constructed with one, and solve_single_stage on such a model gives
\* no result record.
C21_InvertedPressuresRaise ==
    /\ stage.phase = "constructed" => stage.args[3] < stage.args[2]
    /\ (Solved /\ stage.args[3] >= stage.args[2]) => stage.results = None

-----------------------------------------------------------------------------
(* Results outside [0, 1] *)

\* C22: a solver result whose co2_recovery or permeate_co2 lies outside
\* [0, 1] is not scored as meeting a target: objective_function returns 1e6
\* for it.
C22_OutOfRangeResultInfeasible ==
    (/\ eval.called
     /\ eval.solved
     /\ eval.results # None
     /\ \/ eval.results.co2_recovery < 0 \/ eval.results.co2_recovery > 100
        \/ eval.results.permeate_co2 < 0 \/ eval.results.permeate_co2 > 100)
        => eval.value = 2000000000

-----------------------------------------------------------------------------
(* The search box and the accepted range *)

\* C24: the box handed to the global and local optimizers is the range
\* objective_function accepts: a candidate lies within `bounds` exactly when
\* its feed pressure is in [1, 20], its permeate pressure in [0.05, 5] and
\* its area factor in [0.1, 10].
C24_SearchBoxIsAcceptedRange ==
    eval.called =>
        (InBounds(eval.params) <=>
            /\ 20 <= eval.params[1] /\ eval.params[1] <= 400
            /\ 1 <= eval.params[2] /\ eval.params[2] <= 100
            /\ 1 <= eval.params[3] /\ eval.params[3] <= 100)

-----------------------------------------------------------------------------
(* area_factor *)

-----------------------------------------------------------------------------
(* What the escalation changes *)

\* C27: a call leaves the caller's base_params and every field of the
\* optimizer unchanged, the cost settings of its OPEX calculator included.
C27_NoSideEffects ==
    [][base_params' = base_params /\ opex_calc' = opex_calc]_vars

\* C28: escalation never weakens the inputs: the selectivity strategies 2
\* and 3 optimize with is at least the base selectivity, and the feed
\* composition strategies 3, 4 and 5 optimize with is at least the base feed
\* composition.
C28_NeverWeakens ==
    started # <<>> =>
        /\ Last(started) \in {2, 3} =>
              Effective(handed, "selectivity") >= Effective(base_params, "selectivity")
        /\ Last(started) \in {3, 4, 5} =>
              Effective(handed, "feed_composition")
                  >= Effective(base_params, "feed_composition")

\* C29: every strategy, the engineered fallback included, optimizes and
\* computes the economics with the user's feed_flow, electricity_cost and
\* membrane_cost_per_m2.
C29_UserEconomicsKept ==
    started # <<>> =>
        /\ Effective(handed, "feed_flow") = Effective(base_params, "feed_flow")
        /\ Get(handed, "electricity_cost", 7) = Get(base_params, "electricity_cost", 7)
        /\ Get(handed, "membrane_cost_per_m2", 50)
              = Get(base_params, "membrane_cost_per_m2", 50)

\* C30: for each membrane type the permeance and selectivity that
\* auto_optimize_for_target optimizes with in strategy 1 are those the
\* simulator uses for that type.
C30_SameMembraneAsSimulator ==
    \A type \in {"Polaris", "Advanced"}, feed_composition \in {150, 250} :
        (/\ started = <<1>>
         /\ base_params = auto_optimize_base_params(feed_composition, 298, type))
            => /\ handed.co2_permeance_gpu = update_sim_membrane(type).co2_permeance_gpu
               /\ handed.selectivity = update_sim_membrane(type).selectivity

-----------------------------------------------------------------------------
(* The residual function *)

\* C23: the residual function is total.  It returns the pair [1e10, 1e10]
\* when the retentate flow is not positive, when the retentate fraction x is
\* outside [0, 1] and when y is outside [0, 1]; at every other iterate, y = 1
\* and a zero CO2 or N2 flux included, it returns a pair of numbers and has
\* divided by zero nowhere.
C23_ResidualTotal ==
    stage.phase = "evaluated" =>
        LET P == stage.theta * stage.feed_flow
            R == 10 * stage.feed_flow - P
            \* F*z - P*y; x = carried / R is below 0 or above 1
            carried == stage.feed_flow * stage.membrane.z - P * stage.y
        IN  /\ stage.fvec.eq1 # 2147483647
            /\ stage.fvec.eq2 # 2147483647
            /\ (\/ R <= 0
                \/ carried < 0 \/ carried > 100 * R
                \/ stage.y < 0 \/ stage.y > 100)
                  => stage.fvec = [sentinel |-> TRUE, eq1 |-> 1000000, eq2 |-> 1000000]

\* The residual at theta = 0.3, y = 1 for a feed of pure CO2: x = 1, both
\* nitrogen partial pressures are 0 and the N2 flux is 0.
C23_Witness ==
    /\ stage.phase = "evaluated"
    /\ stage.membrane.z = 1000
    /\ stage.feed_flow = 100
    /\ stage.theta = 3
    /\ stage.y = 100
    /\ stage.fvec.sentinel


====
